---- MODULE Spec2Model ----
(***************************************************************************)
(* State-machine model of scripts/pick_otus_through_otu_table.py.          *)
(*                                                                         *)
(* main() is modelled statement by statement: pc is the position inside    *)
(* main(), opts the parsed command line, paramFile / dirExists /           *)
(* dirContents the part of the filesystem main() touches.  The workflow    *)
(* itself (qiime.workflow, qiime.parse) is imported by the script; its     *)
(* planner, command handlers and parameter parser are modelled from the    *)
(* written specification of the orchestration engine.                      *)
(*                                                                         *)
(* A behaviour is a sequence of at most MaxRuns runs of main() with the    *)
(* same command line and parameter file; the filesystem persists between   *)
(* the runs.                                                               *)
(***************************************************************************)
EXTENDS Naturals, Sequences, FiniteSets, TLC

VARIABLES
    opts,                    \* parsed command line (opts of main)
    paramFile,               \* the file behind opts.parameter_fp
    dirExists,               \* whether opts.output_dir exists on disk
    dirContents,             \* paths present under opts.output_dir
    pc,                      \* position inside main()
    parameter_f,             \* TRUE once open(opts.parameter_fp) returned
    error,                   \* exception that ended the run, or "none"
    exit_code,               \* exit status of the process: 0, or 1 once it failed
    stdout,                  \* lines the run has printed
    command_handler,         \* handler selected by main()
    status_update_callback,  \* callback selected by main()
    params,                  \* result of parse_qiime_parameters
    workflow_invoked,        \* TRUE once run_qiime_data_preparation is entered
    commands,                \* the planned command list
    executed,                \* steps whose external command was started
    results,                 \* ExecutionResult of each finished step
    overall_status,          \* status returned by the command handler
    run,                     \* ordinal of the current run
    start,                   \* filesystem snapshot at the start of this run
    prev                     \* outcome of the previous run

vars == <<opts, paramFile, dirExists, dirContents, pc, parameter_f, error,
          exit_code, stdout, command_handler, status_update_callback, params,
          workflow_invoked, commands, executed, results, overall_status, run,
          start, prev>>

-----------------------------------------------------------------------------
(* Bounds and input domains                                                *)

MaxRuns == 2

None == "None"

\* optparse leaves an option that was not given at None; a given option
\* holds the string that followed it, which may be empty.
SffValues == {None, "", "inseqs1.sff.txt"}

MappingValues == {None, "", "metadata_mapping.txt"}

ParamFileStates == {"missing", "malformed", "wellformed"}

PreexistingFiles == {"wf1/notes.txt", "wf1/pick_otus"}

\* Python truth value of an option value.
Truthy(x) == x # None /\ x # ""

OptionValues ==
    [input_fp : {"inseqs1.fasta"}, output_dir : {"wf1"},
     parameter_fp : {"custom_parameters.txt"},
     force : BOOLEAN, print_only : BOOLEAN, parallel : BOOLEAN,
     verbose : BOOLEAN, sff_fp : SffValues, mapping_fp : MappingValues]

DirConflictMessage ==
    <<"msg", "Output directory already exists. Please choose a different directory, or force overwrite with -f.">>

-----------------------------------------------------------------------------
(* The workflow library, from the specification of the engine              *)

BaseSteps ==
    <<"pick_otus", "pick_rep_set", "align_seqs", "assign_taxonomy",
      "filter_alignment", "make_phylogeny", "make_otu_table">>

\* CommandBuilder: deterministic output path <root>/<step_name>
OutputPath(root, step) == root \o "/" \o step

CommandBuilder(step, input, root, parallel) ==
    [step |-> step, input |-> input, output |-> OutputPath(root, step),
     parallel |-> parallel]

\* PipelinePlanner: DenoiseDecision followed by the linear chain
PlanSteps(sff_input_fp, mapping_fp) ==
    IF Truthy(sff_input_fp) /\ Truthy(mapping_fp)
    THEN <<"denoise">> \o BaseSteps
    ELSE BaseSteps

\* Fault variant: every step is handed the original sequence input
PipelinePlanner_AllFromInput(input_fp, root, sff_input_fp, mapping_fp, parallel) ==
    LET steps == PlanSteps(sff_input_fp, mapping_fp)
    IN  [i \in 1..Len(steps) |->
            CommandBuilder(steps[i], input_fp, root, parallel)]

PipelinePlanner(input_fp, root, sff_input_fp, mapping_fp, parallel) ==
    LET steps == PlanSteps(sff_input_fp, mapping_fp)
    IN  [i \in 1..Len(steps) |->
            CommandBuilder(steps[i],
                           IF i = 1 THEN input_fp
                                    ELSE OutputPath(root, steps[i-1]),
                           root, parallel)]

\* Rendered text of one CommandInvocation
Render(c) == <<"cmd", c.step, c.input, c.output, c.parallel>>

\* ParameterStore: a malformed line is a ParseError
parse_qiime_parameters(f) ==
    IF f = "malformed" THEN "ParseError" ELSE "params"

-----------------------------------------------------------------------------
(* Initial state: main() entered for the first time                        *)

Init ==
    /\ opts \in OptionValues
    /\ paramFile \in ParamFileStates
    /\ dirExists \in BOOLEAN
    /\ dirContents \in (IF dirExists THEN SUBSET PreexistingFiles ELSE {{}})
    /\ pc = "open_params"
    /\ parameter_f = FALSE
    /\ error = "none"
    /\ exit_code = 0
    /\ stdout = <<>>
    /\ command_handler = "none"
    /\ status_update_callback = "none"
    /\ params = "none"
    /\ workflow_invoked = FALSE
    /\ commands = <<>>
    /\ executed = <<>>
    /\ results = <<>>
    /\ overall_status = "none"
    /\ run = 1
    /\ start = [dirExists |-> dirExists, dirContents |-> dirContents]
    /\ prev = [stdout |-> <<>>, dirExists |-> dirExists]

\* An uncaught exception: traceback, interpreter exits with status 1.
Raise(e) ==
    /\ error' = e
    /\ exit_code' = 1
    /\ pc' = "done"

-----------------------------------------------------------------------------
(* main(), lines 124-167                                                   *)

OpenParameterFile ==
    /\ pc = "open_params"
    /\ IF paramFile = "missing"
       THEN /\ Raise("IOError")
            /\ UNCHANGED parameter_f
       ELSE /\ parameter_f' = TRUE
            /\ pc' = "check_sff"
            /\ UNCHANGED <<error, exit_code>>
    /\ UNCHANGED <<opts, paramFile, dirExists, dirContents, stdout,
                   command_handler, status_update_callback, params,
                   workflow_invoked, commands, executed, results,
                   overall_status, run, start, prev>>

\* Fault variant: a partial sff/mapping pair is let through
CheckSffMapping_NoAssert ==
    /\ pc = "check_sff"
    /\ pc' = "makedirs"
    /\ UNCHANGED <<opts, paramFile, dirExists, dirContents, parameter_f,
                   error, exit_code, stdout, command_handler,
                   status_update_callback, params, workflow_invoked,
                   commands, executed, results, overall_status, run, start,
                   prev>>

\* Fault variant: the output directory is made before the assertion
CheckSffMapping_MakedirsFirst ==
    /\ pc = "check_sff"
    /\ dirExists' = TRUE
    /\ IF (Truthy(opts.sff_fp) \/ Truthy(opts.mapping_fp))
          /\ ~(Truthy(opts.sff_fp) /\ Truthy(opts.mapping_fp))
       THEN Raise("AssertionError")
       ELSE /\ pc' = "makedirs"
            /\ UNCHANGED <<error, exit_code>>
    /\ UNCHANGED <<opts, paramFile, dirContents, parameter_f, stdout,
                   command_handler, status_update_callback, params,
                   workflow_invoked, commands, executed, results,
                   overall_status, run, start, prev>>

CheckSffMapping ==
    /\ pc = "check_sff"
    /\ IF (Truthy(opts.sff_fp) \/ Truthy(opts.mapping_fp))
          /\ ~(Truthy(opts.sff_fp) /\ Truthy(opts.mapping_fp))
       THEN Raise("AssertionError")
       ELSE /\ pc' = "makedirs"
            /\ UNCHANGED <<error, exit_code>>
    /\ UNCHANGED <<opts, paramFile, dirExists, dirContents, parameter_f,
                   stdout, command_handler, status_update_callback, params,
                   workflow_invoked, commands, executed, results,
                   overall_status, run, start, prev>>

\* Fault variant: -f is not honoured
MakeOutputDir_IgnoresForce ==
    /\ pc = "makedirs"
    /\ IF ~dirExists
       THEN /\ dirExists' = TRUE
            /\ pc' = "select_handler"
            /\ UNCHANGED <<exit_code, stdout>>
       ELSE /\ stdout' = Append(stdout, DirConflictMessage)
            /\ exit_code' = 1
            /\ pc' = "done"
            /\ UNCHANGED dirExists
    /\ UNCHANGED <<opts, paramFile, dirContents, parameter_f, error,
                   command_handler, status_update_callback, params,
                   workflow_invoked, commands, executed, results,
                   overall_status, run, start, prev>>

\* Fault variant: -f empties the existing directory
MakeOutputDir_ForceRemoves ==
    /\ pc = "makedirs"
    /\ IF ~dirExists
       THEN /\ dirExists' = TRUE
            /\ pc' = "select_handler"
            /\ UNCHANGED <<exit_code, stdout, dirContents>>
       ELSE IF opts.force
            THEN /\ pc' = "select_handler"
                 /\ dirContents' = {}
                 /\ UNCHANGED <<dirExists, exit_code, stdout>>
            ELSE /\ stdout' = Append(stdout, DirConflictMessage)
                 /\ exit_code' = 1
                 /\ pc' = "done"
                 /\ UNCHANGED <<dirExists, dirContents>>
    /\ UNCHANGED <<opts, paramFile, parameter_f, error,
                   command_handler, status_update_callback, params,
                   workflow_invoked, commands, executed, results,
                   overall_status, run, start, prev>>

\* makedirs raises OSError when the path already exists
MakeOutputDir ==
    /\ pc = "makedirs"
    /\ IF ~dirExists
       THEN /\ dirExists' = TRUE
            /\ pc' = "select_handler"
            /\ UNCHANGED <<exit_code, stdout>>
       ELSE IF opts.force
            THEN /\ pc' = "select_handler"
                 /\ UNCHANGED <<dirExists, exit_code, stdout>>
            ELSE /\ stdout' = Append(stdout, DirConflictMessage)
                 /\ exit_code' = 1
                 /\ pc' = "done"
                 /\ UNCHANGED dirExists
    /\ UNCHANGED <<opts, paramFile, dirContents, parameter_f, error,
                   command_handler, status_update_callback, params,
                   workflow_invoked, commands, executed, results,
                   overall_status, run, start, prev>>

\* Fault variant: the parallel flag overrides print_only
SelectCommandHandler_ParallelWins ==
    /\ pc = "select_handler"
    /\ command_handler' = IF opts.print_only /\ ~opts.parallel
                          THEN "print_commands"
                          ELSE "call_commands_serially"
    /\ pc' = "select_callback"
    /\ UNCHANGED <<opts, paramFile, dirExists, dirContents, parameter_f,
                   error, exit_code, stdout, status_update_callback, params,
                   workflow_invoked, commands, executed, results,
                   overall_status, run, start, prev>>

SelectCommandHandler ==
    /\ pc = "select_handler"
    /\ command_handler' = IF opts.print_only
                          THEN "print_commands"
                          ELSE "call_commands_serially"
    /\ pc' = "select_callback"
    /\ UNCHANGED <<opts, paramFile, dirExists, dirContents, parameter_f,
                   error, exit_code, stdout, status_update_callback, params,
                   workflow_invoked, commands, executed, results,
                   overall_status, run, start, prev>>

SelectStatusCallback ==
    /\ pc = "select_callback"
    /\ status_update_callback' = IF opts.verbose
                                 THEN "print_to_stdout"
                                 ELSE "no_status_updates"
    /\ pc' = "parse_params"
    /\ UNCHANGED <<opts, paramFile, dirExists, dirContents, parameter_f,
                   error, exit_code, stdout, command_handler, params,
                   workflow_invoked, commands, executed, results,
                   overall_status, run, start, prev>>

\* Fault variant: the parameters are not parsed before the call
EvaluateParams_Unparsed ==
    /\ pc = "parse_params"
    /\ params' = "unparsed"
    /\ pc' = "workflow"
    /\ UNCHANGED <<opts, paramFile, dirExists, dirContents, parameter_f,
                   error, exit_code, stdout, command_handler,
                   status_update_callback, workflow_invoked, commands,
                   executed, results, overall_status, run, start, prev>>

\* The argument params=parse_qiime_parameters(parameter_f) is evaluated
\* before run_qiime_data_preparation is entered.
EvaluateParams ==
    /\ pc = "parse_params"
    /\ LET p == parse_qiime_parameters(paramFile)
       IN  IF p = "ParseError"
           THEN /\ Raise("ParseError")
                /\ UNCHANGED params
           ELSE /\ params' = p
                /\ pc' = "workflow"
                /\ UNCHANGED <<error, exit_code>>
    /\ UNCHANGED <<opts, paramFile, dirExists, dirContents, parameter_f,
                   stdout, command_handler, status_update_callback,
                   workflow_invoked, commands, executed, results,
                   overall_status, run, start, prev>>

\* Fault variant: sff_input_fp is not handed to the workflow
RunDataPreparation_DropsSff ==
    /\ pc = "workflow"
    /\ workflow_invoked' = TRUE
    /\ commands' = PipelinePlanner(opts.input_fp, opts.output_dir,
                                   None, opts.mapping_fp, opts.parallel)
    /\ pc' = "handler"
    /\ UNCHANGED <<opts, paramFile, dirExists, dirContents, parameter_f,
                   error, exit_code, stdout, command_handler,
                   status_update_callback, params, executed, results,
                   overall_status, run, start, prev>>

\* run_qiime_data_preparation is entered and plans the command list
RunDataPreparation ==
    /\ pc = "workflow"
    /\ workflow_invoked' = TRUE
    /\ commands' = PipelinePlanner(opts.input_fp, opts.output_dir,
                                   opts.sff_fp, opts.mapping_fp,
                                   opts.parallel)
    /\ pc' = "handler"
    /\ UNCHANGED <<opts, paramFile, dirExists, dirContents, parameter_f,
                   error, exit_code, stdout, command_handler,
                   status_update_callback, params, executed, results,
                   overall_status, run, start, prev>>

-----------------------------------------------------------------------------
(* The command handlers (ExecutionPolicy) and the StatusReporter           *)

\* StatusReporter: the verbose variant emits a line, the silent one nothing
Report(out, event, step) ==
    IF status_update_callback = "print_to_stdout"
    THEN Append(out, <<"status", event, step>>)
    ELSE out

\* print_commands: render the next command, run nothing, report success
PrintCommand ==
    /\ pc = "handler"
    /\ command_handler = "print_commands"
    /\ Len(results) < Len(commands)
    /\ stdout' = Append(stdout, Render(commands[Len(results) + 1]))
    /\ results' = Append(results, "success")
    /\ UNCHANGED <<opts, paramFile, dirExists, dirContents, pc, parameter_f,
                   error, exit_code, command_handler,
                   status_update_callback, params, workflow_invoked,
                   commands, executed, overall_status, run, start, prev>>

\* call_commands_serially: start the next command once its predecessor's
\* result is known
StartStep ==
    /\ pc = "handler"
    /\ command_handler = "call_commands_serially"
    /\ Len(executed) = Len(results)
    /\ Len(results) < Len(commands)
    /\ LET c == commands[Len(results) + 1]
       IN  /\ executed' = Append(executed, c.step)
           /\ stdout' = Report(stdout, "start", c.step)
    /\ UNCHANGED <<opts, paramFile, dirExists, dirContents, pc, parameter_f,
                   error, exit_code, command_handler,
                   status_update_callback, params, workflow_invoked,
                   commands, results, overall_status, run, start, prev>>

\* Fault variant: a failed step does not halt the handler
FinishStep_ContinuesAfterFailure ==
    /\ pc = "handler"
    /\ command_handler = "call_commands_serially"
    /\ Len(executed) = Len(results) + 1
    /\ LET c == commands[Len(executed)]
       IN  \E outcome \in {"success", "failure"} :
              /\ results' = Append(results, outcome)
              /\ stdout' = Report(stdout, outcome, c.step)
              /\ dirContents' = IF outcome = "success"
                                THEN dirContents \cup {c.output}
                                ELSE dirContents
    /\ UNCHANGED <<opts, paramFile, dirExists, pc, parameter_f, error,
                   exit_code, command_handler, status_update_callback,
                   params, workflow_invoked, commands, executed,
                   overall_status, run, start, prev>>

\* call_commands_serially: the running command completes; a failure result
\* halts the handler
FinishStep ==
    /\ pc = "handler"
    /\ command_handler = "call_commands_serially"
    /\ Len(executed) = Len(results) + 1
    /\ LET c == commands[Len(executed)]
       IN  \/ /\ results' = Append(results, "success")
              /\ stdout' = Report(stdout, "success", c.step)
              /\ dirContents' = dirContents \cup {c.output}
              /\ UNCHANGED <<pc, error, exit_code, overall_status>>
           \/ /\ results' = Append(results, "failure")
              /\ stdout' = Report(stdout, "failure", c.step)
              /\ overall_status' = "failure"
              /\ Raise("StepExecutionFailure")
              /\ UNCHANGED dirContents
    /\ UNCHANGED <<opts, paramFile, dirExists, parameter_f, command_handler,
                   status_update_callback, params, workflow_invoked,
                   commands, executed, run, start, prev>>

\* Either handler returns once every command has a success result
HandlerReturn ==
    /\ pc = "handler"
    /\ Len(results) = Len(commands)
    /\ \A i \in 1..Len(results) : results[i] = "success"
    /\ overall_status' = "success"
    /\ pc' = "done"
    /\ UNCHANGED <<opts, paramFile, dirExists, dirContents, parameter_f,
                   error, exit_code, stdout, command_handler,
                   status_update_callback, params, workflow_invoked,
                   commands, executed, results, run, start, prev>>

\* The script is run again with the same command line and parameter file
Rerun ==
    /\ pc = "done"
    /\ run < MaxRuns
    /\ run' = run + 1
    /\ prev' = [stdout |-> stdout, dirExists |-> start.dirExists]
    /\ start' = [dirExists |-> dirExists, dirContents |-> dirContents]
    /\ pc' = "open_params"
    /\ parameter_f' = FALSE
    /\ error' = "none"
    /\ exit_code' = 0
    /\ stdout' = <<>>
    /\ command_handler' = "none"
    /\ status_update_callback' = "none"
    /\ params' = "none"
    /\ workflow_invoked' = FALSE
    /\ commands' = <<>>
    /\ executed' = <<>>
    /\ results' = <<>>
    /\ overall_status' = "none"
    /\ UNCHANGED <<opts, paramFile, dirExists, dirContents>>

Next ==
    \/ OpenParameterFile
    \/ CheckSffMapping
    \/ MakeOutputDir
    \/ SelectCommandHandler
    \/ SelectStatusCallback
    \/ EvaluateParams
    \/ RunDataPreparation
    \/ PrintCommand
    \/ StartStep
    \/ FinishStep
    \/ HandlerReturn
    \/ Rerun

Spec == Init /\ [][Next]_vars

TypeOK ==
    /\ opts \in OptionValues
    /\ paramFile \in ParamFileStates
    /\ dirExists \in BOOLEAN
    /\ pc \in {"open_params", "check_sff", "makedirs", "select_handler",
               "select_callback", "parse_params", "workflow", "handler",
               "done"}
    /\ parameter_f \in BOOLEAN
    /\ error \in {"none", "IOError", "AssertionError", "ParseError",
                  "StepExecutionFailure"}
    /\ exit_code \in {0, 1}
    /\ command_handler \in {"none", "print_commands",
                            "call_commands_serially"}
    /\ status_update_callback \in {"none", "print_to_stdout",
                                   "no_status_updates"}
    /\ workflow_invoked \in BOOLEAN
    /\ overall_status \in {"none", "success", "failure"}
    /\ run \in 1..MaxRuns
    /\ Len(results) <= Len(commands)
    /\ Len(executed) <= Len(commands)

-----------------------------------------------------------------------------
(* Vocabulary of the properties                                            *)

Range(seq) == {seq[i] : i \in 1..Len(seq)}

SffSupplied == Truthy(opts.sff_fp)

MappingSupplied == Truthy(opts.mapping_fp)

BothSupplied == SffSupplied /\ MappingSupplied

NeitherSupplied == ~SffSupplied /\ ~MappingSupplied

ExactlyOneSupplied == SffSupplied # MappingSupplied

StepNames == [i \in 1..Len(commands) |-> commands[i].step]

NothingBuiltOrExecuted ==
    /\ ~workflow_invoked
    /\ commands = <<>>
    /\ executed = <<>>
    /\ results = <<>>

IsCommandText(line) == line[1] = "cmd"

RenderedText(out) == SelectSeq(out, IsCommandText)

FilesystemUntouched ==
    /\ dirExists = start.dirExists
    /\ dirContents = start.dirContents

-----------------------------------------------------------------------------
(* Properties                                                              *)

\* C1 (as stated): whenever the output directory exists and force is not
\* set, the finished run has printed the directory-conflict message, exited
\* non-zero and built or executed nothing, the workflow and the handler
\* never having been invoked; with force set instead, the run passes
\* preflight and goes on to planning.
C1_AsStated ==
    /\ (start.dirExists /\ ~opts.force /\ pc = "done") =>
          /\ DirConflictMessage \in Range(stdout)
          /\ exit_code = 1
          /\ NothingBuiltOrExecuted
          /\ command_handler = "none"
    /\ (start.dirExists /\ opts.force /\ pc = "done") => workflow_invoked

\* C1 (amended): with the output directory existing and force not set, no
\* run builds or executes a command or selects a handler, and it ends with
\* a non-zero exit; when the run gets as far as the directory check (the
\* parameters file opened, sff and mapping both or neither given) it prints
\* exactly the directory-conflict message.  With force set such a run
\* passes the directory check, selects its handler and, when the parameter
\* file parses, plans the commands.
C1_DirectoryConflict ==
    LET reachesCheck == paramFile # "missing" /\ ~ExactlyOneSupplied
    IN  /\ (start.dirExists /\ ~opts.force) =>
              /\ NothingBuiltOrExecuted
              /\ command_handler = "none"
              /\ pc = "done" => exit_code = 1
        /\ (start.dirExists /\ ~opts.force /\ reachesCheck /\ pc = "done") =>
              stdout = <<DirConflictMessage>>
        /\ (start.dirExists /\ opts.force /\ reachesCheck /\ pc = "done") =>
              /\ command_handler # "none"
              /\ DirConflictMessage \notin Range(stdout)
              /\ paramFile = "wellformed" =>
                    (workflow_invoked /\ commands # <<>>)

C1_Witness ==
    /\ start.dirExists
    /\ ~opts.force
    /\ pc = "done"
    /\ stdout = <<DirConflictMessage>>
    /\ exit_code = 1

\* C2: when exactly one of the sff file and the mapping file is supplied
\* the run fails before any command is built or executed and ends with a
\* non-zero exit (by the assertion once the parameters file is open); when
\* both or neither are supplied the assertion does not fail.
C2_PartialDenoiseInputsFail ==
    /\ ExactlyOneSupplied =>
          /\ NothingBuiltOrExecuted
          /\ pc = "done" =>
                /\ exit_code = 1
                /\ error \in {"IOError", "AssertionError"}
          /\ (pc = "done" /\ parameter_f) => error = "AssertionError"
    /\ ~ExactlyOneSupplied => error # "AssertionError"

C2_Witness ==
    /\ SffSupplied
    /\ ~MappingSupplied
    /\ pc = "done"
    /\ error = "AssertionError"
    /\ exit_code = 1

\* C3: under the serial handler the commands are started one at a time in
\* list order; when step k is the first to fail, the steps before k have
\* succeeded, step k is reported failed, no step after k is started, and
\* the overall result is failure.
C3_SerialHaltsOnFirstFailure ==
    command_handler = "call_commands_serially" =>
        /\ \A i \in 1..Len(executed) : executed[i] = commands[i].step
        /\ Len(results) <= Len(executed)
        /\ Len(executed) <= Len(results) + 1
        /\ \A k \in 1..Len(results) :
              results[k] = "failure" =>
                  /\ \A i \in 1..(k - 1) : results[i] = "success"
                  /\ Len(results) = k
                  /\ Len(executed) = k
                  /\ overall_status = "failure"
                  /\ pc = "done"
                  /\ exit_code = 1
        /\ overall_status = "failure" =>
              (results # <<>> /\ results[Len(results)] = "failure")
        /\ status_update_callback = "print_to_stdout" =>
              \A i \in 1..Len(results) :
                  <<"status", results[i], commands[i].step>> \in Range(stdout)

C3_Witness ==
    /\ command_handler = "call_commands_serially"
    /\ status_update_callback = "print_to_stdout"
    /\ Len(commands) = 8
    /\ results = <<"success", "success", "failure">>
    /\ executed = <<"denoise", "pick_otus", "pick_rep_set">>
    /\ overall_status = "failure"
    /\ pc = "done"

\* C4: the planned command list holds the denoise step iff both the sff
\* file and the mapping file are supplied; with neither it is the seven
\* steps from pick_otus to make_otu_table, with both it is denoise followed
\* by those seven.
C4_DenoiseIffBothSupplied ==
    workflow_invoked =>
        /\ ("denoise" \in Range(StepNames)) <=> BothSupplied
        /\ NeitherSupplied =>
              StepNames = <<"pick_otus", "pick_rep_set", "align_seqs",
                            "assign_taxonomy", "filter_alignment",
                            "make_phylogeny", "make_otu_table">>
        /\ BothSupplied =>
              StepNames = <<"denoise", "pick_otus", "pick_rep_set",
                            "align_seqs", "assign_taxonomy",
                            "filter_alignment", "make_phylogeny",
                            "make_otu_table">>

C4_Witness ==
    /\ workflow_invoked
    /\ BothSupplied
    /\ Len(commands) = 8
    /\ commands[1].step = "denoise"

C6_AsStated ==
    (run > 1 /\ pc = "done" /\ opts.print_only) =>
        RenderedText(stdout) = RenderedText(prev.stdout)

\* C6 (amended): a second print-only run with the same inputs and flags
\* renders the same command text as the first, provided force is set or
\* the output directory already existed before the first of the two runs.
C6_PrintOnlyRepeatable ==
    (run > 1 /\ pc = "done" /\ opts.print_only
             /\ (opts.force \/ prev.dirExists)) =>
        RenderedText(stdout) = RenderedText(prev.stdout)

C6_Witness ==
    /\ run > 1
    /\ pc = "done"
    /\ opts.print_only
    /\ opts.force
    /\ ~prev.dirExists
    /\ RenderedText(stdout) # <<>>
    /\ RenderedText(stdout) = RenderedText(prev.stdout)

\* C7: with print_only set, whatever parallel and verbose are, the handler
\* selected is print_commands, no external command is started, no step
\* reports failure and the handler's overall status is success.
C7_PrintOnlyNeverExecutes ==
    opts.print_only =>
        /\ command_handler \in {"none", "print_commands"}
        /\ pc \in {"select_callback", "parse_params", "workflow", "handler"}
              => command_handler = "print_commands"
        /\ executed = <<>>
        /\ \A i \in 1..Len(results) : results[i] = "success"
        /\ overall_status # "failure"
        /\ error # "StepExecutionFailure"
        /\ (pc = "done" /\ workflow_invoked) =>
              (overall_status = "success" /\ exit_code = 0)

C7_Witness ==
    /\ opts.print_only
    /\ opts.parallel
    /\ opts.verbose
    /\ pc = "done"
    /\ overall_status = "success"
    /\ Len(RenderedText(stdout)) = Len(commands)
    /\ commands # <<>>

\* C8: a parameter file that cannot be opened or that holds a malformed
\* line ends the run with a non-zero exit before the workflow is invoked
\* and before any command is built or executed; the workflow is only ever
\* invoked with the file opened and parsed.
C8_ParameterFileFatalBeforeSteps ==
    /\ paramFile # "wellformed" =>
          /\ NothingBuiltOrExecuted
          /\ pc = "done" => exit_code = 1
          /\ (pc = "done" /\ paramFile = "missing") => error = "IOError"
          /\ (pc = "done" /\ command_handler # "none") =>
                error = "ParseError"
    /\ workflow_invoked => (parameter_f /\ params = "params")

C8_Witness ==
    /\ paramFile = "malformed"
    /\ pc = "done"
    /\ error = "ParseError"
    /\ command_handler # "none"

\* C9: when the output directory exists and force is set, nothing under it
\* is removed or modified before the workflow is invoked.
C9_ForceKeepsExistingContents ==
    (start.dirExists /\ opts.force /\ ~workflow_invoked) =>
        /\ dirExists
        /\ dirContents = start.dirContents

C9_Witness ==
    /\ start.dirExists
    /\ opts.force
    /\ pc = "workflow"
    /\ dirContents # {}
    /\ dirContents = start.dirContents

\* C10: the output directory is created only after the parameters file was
\* opened and the sff/mapping check passed; a run that fails at either of
\* the two leaves the filesystem as it found it.
C10_NoDirectoryBeforeChecks ==
    /\ (pc \in {"open_params", "check_sff"}
           \/ error \in {"IOError", "AssertionError"}) =>
          FilesystemUntouched
    /\ (dirExists /\ ~start.dirExists) =>
          (parameter_f /\ ~ExactlyOneSupplied)

C10_Witness ==
    /\ pc = "done"
    /\ error = "AssertionError"
    /\ ~start.dirExists
    /\ ~dirExists
====
